---- MODULE Spec2Model ----
(***************************************************************************)
(* Model of the MediChain access-control core:                             *)
(*   - ABACEngine (utils/abacEngine.js): policy store, evaluateAccess,     *)
(*     audit log;                                                          *)
(*   - SecurityProvider (context/SecurityContext): session, canAccess;     *)
(*   - SecureAccessControl.sol: on-chain users, permissions, evaluateAccess*)
(*   - utils/zkProofs.js: commitments, age and role proofs, selective      *)
(*     disclosure, proof freshness.                                        *)
(* JavaScript values are modelled by strings (identifiers, enum members)   *)
(* and integers (sensitivity levels); `undefined` is the string Undef for  *)
(* string-valued fields and the integer UndefNum for number-valued fields. *)
(***************************************************************************)
EXTENDS Integers, Sequences, FiniteSets, TLC

\* ------------------------------------------------------------------------
\* JavaScript value helpers
\* ------------------------------------------------------------------------
Undef == "undefined"
Null == "null"
UndefNum == -1

\* JS truthiness of a string-or-undefined value: undefined and "" are falsy.
Truthy(v) == v \notin {Undef, ""}

\* a || b on string-or-undefined values
OrElse(a, b) == IF Truthy(a) THEN a ELSE b

\* JS truthiness of a number-or-undefined value: undefined and 0 are falsy.
TruthyNum(n) == n \notin {UndefNum, 0}

\* a || b on number-or-undefined values
OrElseNum(a, b) == IF TruthyNum(a) THEN a ELSE b

\* obj[key] on a record: undefined when the key is absent
Attr(obj, key) == IF key \in DOMAIN obj THEN obj[key] ELSE Undef

\* ------------------------------------------------------------------------
\* Enumerations of abacEngine.js (ACTIONS is a reserved word: ACTIONS_)
\* ------------------------------------------------------------------------
ROLES == [PATIENT |-> "patient", DOCTOR |-> "doctor", DIAGNOSTIC |-> "diagnostic",
          ADMIN |-> "admin", EMERGENCY |-> "emergency"]

RESOURCES == [PATIENT_RECORD |-> "patient_record", MEDICAL_HISTORY |-> "medical_history",
              DIAGNOSTIC_REPORT |-> "diagnostic_report", PRESCRIPTION |-> "prescription",
              LAB_RESULTS |-> "lab_results", PERSONAL_INFO |-> "personal_info",
              BILLING |-> "billing"]

ACTIONS_ == [READ |-> "read", WRITE |-> "write", UPDATE |-> "update",
            DELETE |-> "delete", SHARE |-> "share", DOWNLOAD |-> "download"]

SENSITIVITY == [PUBLIC |-> 0, INTERNAL |-> 1, CONFIDENTIAL |-> 2,
                RESTRICTED |-> 3, TOP_SECRET |-> 4]

\* ------------------------------------------------------------------------
\* Policy values.  A matcher is '*', an array or a scalar; an attribute
\* criteria object is absent (undefined) or a list of (key, matcher) entries.
\* ------------------------------------------------------------------------
StarM == [tag |-> "star"]
ArrayM(S) == [tag |-> "array", vals |-> S]
ScalarM(v) == [tag |-> "scalar", val |-> v]

NoCriteria == [present |-> FALSE, entries |-> <<>>]
Criteria(es) == [present |-> TRUE, entries |-> es]

NoTimeRange == [present |-> FALSE, start |-> 0, end |-> 0]
TimeRange(s, e) == [present |-> TRUE, start |-> s, end |-> e]

\* a conditions object with no key set; ownerMatch, hasPermission and
\* emergencyDeclared are "undefined", "true" or "false"
EmptyConditions == [present |-> TRUE, ownerMatch |-> Undef, hasPermission |-> Undef,
                    emergencyDeclared |-> Undef, sensitivityMax |-> UndefNum,
                    timeRange |-> NoTimeRange, unless |-> <<>>]
NoConditions == [EmptyConditions EXCEPT !.present = FALSE]

defaultPolicies == <<
  [id |-> "patient-own-records",
   description |-> "Patients can access their own records",
   effect |-> "allow",
   subjects |-> Criteria(<< <<"role", ScalarM(ROLES.PATIENT)>> >>),
   resources |-> Criteria(<< <<"type", ArrayM({RESOURCES.PATIENT_RECORD,
                              RESOURCES.MEDICAL_HISTORY, RESOURCES.LAB_RESULTS})>> >>),
   actions |-> ArrayM({ACTIONS_.READ, ACTIONS_.DOWNLOAD}),
   conditions |-> [EmptyConditions EXCEPT !.ownerMatch = "true"]],
  [id |-> "patient-share-records",
   description |-> "Patients can share their records with others",
   effect |-> "allow",
   subjects |-> Criteria(<< <<"role", ScalarM(ROLES.PATIENT)>> >>),
   resources |-> Criteria(<< <<"type", ArrayM({RESOURCES.PATIENT_RECORD,
                              RESOURCES.MEDICAL_HISTORY})>> >>),
   actions |-> ArrayM({ACTIONS_.SHARE}),
   conditions |-> [EmptyConditions EXCEPT !.ownerMatch = "true"]],
  [id |-> "doctor-read-with-permission",
   description |-> "Doctors can read patient records when permission granted",
   effect |-> "allow",
   subjects |-> Criteria(<< <<"role", ScalarM(ROLES.DOCTOR)>> >>),
   resources |-> Criteria(<< <<"type", ArrayM({RESOURCES.PATIENT_RECORD,
                              RESOURCES.MEDICAL_HISTORY, RESOURCES.LAB_RESULTS})>> >>),
   actions |-> ArrayM({ACTIONS_.READ}),
   conditions |-> [EmptyConditions EXCEPT !.hasPermission = "true"]],
  [id |-> "doctor-write-prescription",
   description |-> "Doctors can create prescriptions for permitted patients",
   effect |-> "allow",
   subjects |-> Criteria(<< <<"role", ScalarM(ROLES.DOCTOR)>> >>),
   resources |-> Criteria(<< <<"type", ArrayM({RESOURCES.PRESCRIPTION})>> >>),
   actions |-> ArrayM({ACTIONS_.WRITE, ACTIONS_.UPDATE}),
   conditions |-> [EmptyConditions EXCEPT !.hasPermission = "true"]],
  [id |-> "diagnostic-upload",
   description |-> "Diagnostic centers can upload diagnostic reports",
   effect |-> "allow",
   subjects |-> Criteria(<< <<"role", ScalarM(ROLES.DIAGNOSTIC)>> >>),
   resources |-> Criteria(<< <<"type", ArrayM({RESOURCES.DIAGNOSTIC_REPORT,
                              RESOURCES.LAB_RESULTS})>> >>),
   actions |-> ArrayM({ACTIONS_.WRITE}),
   conditions |-> [EmptyConditions EXCEPT !.hasPermission = "true"]],
  [id |-> "emergency-access",
   description |-> "Emergency personnel can access critical records",
   effect |-> "allow",
   subjects |-> Criteria(<< <<"role", ScalarM(ROLES.EMERGENCY)>> >>),
   resources |-> Criteria(<< <<"type", ArrayM({RESOURCES.PATIENT_RECORD,
                              RESOURCES.MEDICAL_HISTORY})>> >>),
   actions |-> ArrayM({ACTIONS_.READ}),
   conditions |-> [EmptyConditions EXCEPT !.emergencyDeclared = "true",
                                          !.sensitivityMax = SENSITIVITY.CONFIDENTIAL]],
  [id |-> "deny-restricted-default",
   description |-> "Deny access to restricted data by default",
   effect |-> "deny",
   subjects |-> Criteria(<< <<"role", StarM>> >>),
   resources |-> Criteria(<< <<"sensitivity", ScalarM(SENSITIVITY.RESTRICTED)>> >>),
   actions |-> StarM,
   conditions |-> [EmptyConditions EXCEPT !.unless = << <<"role", ROLES.ADMIN>> >>]]
>>

\* ------------------------------------------------------------------------
\* ABACEngine: the matchers
\* ------------------------------------------------------------------------

\* one entry of the for-loop shared by matchSubject and matchResource
EntryMatches(entry, attrs) ==
  LET value == entry[2]
      actual == Attr(attrs, entry[1])
  IN  \/ value.tag = "star"
      \/ value.tag = "array" /\ actual \in value.vals
      \/ value.tag = "scalar" /\ actual = value.val

matchSubject(policySubjects, subjectAttrs) ==
  \/ ~policySubjects.present
  \/ \A i \in 1..Len(policySubjects.entries) :
        EntryMatches(policySubjects.entries[i], subjectAttrs)

matchResource(policyResources, resourceAttrs) ==
  \/ ~policyResources.present
  \/ \A i \in 1..Len(policyResources.entries) :
        EntryMatches(policyResources.entries[i], resourceAttrs)

matchAction(policyActions, requestedAction) ==
  \/ policyActions.tag = "star"
  \/ policyActions.tag = "array" /\ requestedAction \in policyActions.vals
  \/ policyActions.tag = "scalar" /\ policyActions.val = requestedAction

\* the `unless` loop: some listed subject attribute has the listed value
UnlessMet(conditions, context) ==
  \E i \in 1..Len(conditions.unless) :
     Attr(context.subject, conditions.unless[i][1]) = conditions.unless[i][2]

evaluateConditions(conditions, context) ==
  IF ~conditions.present THEN TRUE
  ELSE IF conditions.ownerMatch = "true"
          /\ context.subjectId # context.resourceOwnerId THEN FALSE
  ELSE IF conditions.hasPermission = "true" /\ ~context.permissionGranted THEN FALSE
  ELSE IF conditions.emergencyDeclared = "true" /\ ~context.isEmergency THEN FALSE
  ELSE IF conditions.sensitivityMax # UndefNum
          /\ context.resourceSensitivity > conditions.sensitivityMax THEN FALSE
  ELSE IF conditions.timeRange.present
          /\ (context.hour < conditions.timeRange.start
              \/ context.hour > conditions.timeRange.end) THEN FALSE
  ELSE IF UnlessMet(conditions, context) THEN TRUE
  ELSE TRUE


\* ------------------------------------------------------------------------
\* ABACEngine.evaluateAccess
\* A request is [subject, resource, action, context]; subject is NullSubject
\* when the caller passes no subject record (null / undefined).
\* ------------------------------------------------------------------------
NullSubject == [role |-> Null, id |-> Null, hhNumber |-> Null]

\* mutant: the subject is identified by hhNumber alone (subject.id is dropped)
fullContext_HhNumberOnly(request, hour) ==
  [subject |-> request.subject,
   subjectId |-> request.subject.hhNumber,
   resourceOwnerId |-> OrElse(request.resource.ownerId, request.resource.patientId),
   resourceSensitivity |-> OrElseNum(request.resource.sensitivity, SENSITIVITY.INTERNAL),
   permissionGranted |-> request.context.permissionGranted,
   isEmergency |-> request.context.isEmergency,
   hour |-> hour]

\* the merged evaluation context; `hour` is new Date().getHours() at the call
fullContext(request, hour) ==
  [subject |-> request.subject,
   subjectId |-> OrElse(request.subject.id, request.subject.hhNumber),
   resourceOwnerId |-> OrElse(request.resource.ownerId, request.resource.patientId),
   resourceSensitivity |-> OrElseNum(request.resource.sensitivity, SENSITIVITY.INTERNAL),
   permissionGranted |-> request.context.permissionGranted,
   isEmergency |-> request.context.isEmergency,
   hour |-> hour]

\* mutant: the conditions of a policy are not evaluated
PolicyMatches_SkipConditions(policy, request, context) ==
  /\ matchSubject(policy.subjects, request.subject)
  /\ matchResource(policy.resources, request.resource)
  /\ matchAction(policy.actions, request.action)

\* the test of the policy loop: all four matchers hold
PolicyMatches(policy, request, context) ==
  /\ matchSubject(policy.subjects, request.subject)
  /\ matchResource(policy.resources, request.resource)
  /\ matchAction(policy.actions, request.action)
  /\ evaluateConditions(policy.conditions, context)

\* the policy loop; the context is built once, before the loop
matchedPolicies(pols, request, hour) ==
  LET context == fullContext(request, hour)
  IN  SelectSeq(pols, LAMBDA p : PolicyMatches(p, request, context))

\* Array.prototype.find(p => p.effect === effect): index of the first, 0 if none
FindEffect(matched, effect) ==
  LET hits == {i \in 1..Len(matched) : matched[i].effect = effect}
  IN  IF hits = {} THEN 0 ELSE CHOOSE i \in hits : \A j \in hits : i <= j

NoMatchDecision ==
  [allowed |-> FALSE, reason |-> "No matching policy found", policy |-> Null]

\* mutant: allow overrides (the allow policy is looked for first)
CombineDecision_AllowOverrides(matched) ==
  LET d == FindEffect(matched, "deny")
      a == FindEffect(matched, "allow")
  IN  IF a # 0
      THEN [allowed |-> TRUE, reason |-> matched[a].description, policy |-> matched[a].id]
      ELSE IF d # 0
      THEN [allowed |-> FALSE, reason |-> matched[d].description, policy |-> matched[d].id]
      ELSE NoMatchDecision

\* mutant: first applicable (the first matching allow or deny policy decides)
CombineDecision_FirstApplicable(matched) ==
  LET d == FindEffect(matched, "deny")
      a == FindEffect(matched, "allow")
  IN  IF d # 0 /\ (a = 0 \/ d < a)
      THEN [allowed |-> FALSE, reason |-> matched[d].description, policy |-> matched[d].id]
      ELSE IF a # 0
      THEN [allowed |-> TRUE, reason |-> matched[a].description, policy |-> matched[a].id]
      ELSE NoMatchDecision

\* the policy combination (deny overrides)
CombineDecision(matched) ==
  LET d == FindEffect(matched, "deny")
      a == FindEffect(matched, "allow")
  IN  IF d # 0
      THEN [allowed |-> FALSE, reason |-> matched[d].description, policy |-> matched[d].id]
      ELSE IF a # 0
      THEN [allowed |-> TRUE, reason |-> matched[a].description, policy |-> matched[a].id]
      ELSE NoMatchDecision

\* the Decision evaluateAccess returns for a request with a subject record
Decide(pols, request, hour) == CombineDecision(matchedPolicies(pols, request, hour))

\* destructuring is fine on null, but subject.id on a null subject is a TypeError
EvaluateThrows(request) == request.subject = NullSubject

AuditEntry(request, decision, timestamp) ==
  [timestamp |-> timestamp,
   subject |-> OrElse(request.subject.id, request.subject.hhNumber),
   resource |-> request.resource.type,
   action |-> request.action,
   decision |-> IF decision.allowed THEN "ALLOW" ELSE "DENY",
   policy |-> decision.policy,
   reason |-> decision.reason]

\* what a call leaves in `result`
Returned(v) == [kind |-> "return", value |-> v]
Thrown(e) == [kind |-> "throw", value |-> e]
NoResult == [kind |-> "none", value |-> Null]

\* ------------------------------------------------------------------------
\* State
\* ------------------------------------------------------------------------
VARIABLES
  sys,          \* which program a behaviour runs: "eval", "engine", "session", "chain", "zk"
  policies,     \* ABACEngine.policies
  auditLog,     \* ABACEngine.auditLog
  now,          \* the wall clock, in hours
  lastOp,       \* name of the last operation called
  request,      \* the request of the last (or pending) evaluateAccess call
  result,       \* what the last operation returned or threw
  currentUser,  \* SecurityProvider state: the authenticated user or NoUser
  userProofs,   \* SecurityProvider state: the keys of the proofs held
  permissions,  \* SecurityProvider state: the keys mapped to true
  accessLog,    \* SecurityProvider state: the access log
  localStorage, \* localStorage['sehr_current_user'] or NoUser
  mounted,      \* whether the provider's mount effect has run
  pendingAuth,  \* the user of an authenticateUser call awaiting its proofs, or NoUser
  userAttributes,    \* SecureAccessControl.userAttributes
  chainPermissions,  \* SecureAccessControl.permissions
  chainAuditLog,     \* SecureAccessControl.auditLog
  blockTimestamp,    \* block.timestamp, in seconds
  chainCall,         \* the last call, if a grant, a revoke, an evaluateAccess or a
                     \* deactivateUser: its arguments and (but for the last) block time
  dateNow,           \* Date.now() of utils/zkProofs.js, in minutes since the epoch
  zkCall,            \* the arguments of the last call of a zkProofs.js function
  zkHeld             \* the last commitment or proof created, with what it was made from

engineVars == <<policies, auditLog, request>>
sessionVars == <<currentUser, userProofs, permissions, accessLog, localStorage, mounted,
                 pendingAuth>>
chainVars == <<userAttributes, chainPermissions, chainAuditLog, blockTimestamp>>
zkVars == <<dateNow, zkCall, zkHeld>>
vars == <<sys, engineVars, now, lastOp, result, sessionVars, chainVars, chainCall, zkVars>>

HoursPerDay == 24
HourOf(t) == t % HoursPerDay


\* ------------------------------------------------------------------------
\* ABACEngine: the operations, as actions on policies / auditLog / result
\* ------------------------------------------------------------------------
evaluateAccess(req) ==
  /\ request' = req
  /\ IF EvaluateThrows(req)
     THEN /\ result' = Thrown("TypeError")
          /\ UNCHANGED auditLog
     ELSE LET decision == Decide(policies, req, HourOf(now))
          IN  /\ auditLog' = Append(auditLog, AuditEntry(req, decision, now))
              /\ result' = Returned(decision)
  /\ UNCHANGED policies

addPolicy(policy) ==
  /\ IF ~Truthy(policy.id) \/ ~Truthy(policy.effect)
     THEN /\ result' = Thrown("Policy must have id and effect")
          /\ UNCHANGED policies
     ELSE /\ policies' = Append(policies, policy)
          /\ result' = Returned(Undef)
  /\ UNCHANGED <<auditLog, request>>

removePolicy(policyId) ==
  /\ policies' = SelectSeq(policies, LAMBDA p : p.id # policyId)
  /\ result' = Returned(Undef)
  /\ UNCHANGED <<auditLog, request>>

\* filter = [subject, decision, since]; an absent key is Undef (UndefNum for since)
FilterLog(log, filter) ==
  LET bySubject == IF Truthy(filter.subject)
                   THEN SelectSeq(log, LAMBDA e : e.subject = filter.subject)
                   ELSE log
      byDecision == IF Truthy(filter.decision)
                    THEN SelectSeq(bySubject, LAMBDA e : e.decision = filter.decision)
                    ELSE bySubject
  IN  IF TruthyNum(filter.since)
      THEN SelectSeq(byDecision, LAMBDA e : e.timestamp >= filter.since)
      ELSE byDecision

getAuditLog(filter) ==
  /\ result' = Returned(FilterLog(auditLog, filter))
  /\ UNCHANGED <<policies, auditLog, request>>

clearAuditLog ==
  /\ auditLog' = <<>>
  /\ result' = Returned(Undef)
  /\ UNCHANGED <<policies, request>>

getPolicies ==
  /\ result' = Returned(policies)
  /\ UNCHANGED <<policies, auditLog, request>>

\* the request ABACEngine.canAccess builds; options = [hasPermission, isEmergency]
CanAccessRequest(userRole, userId, resourceType, resourceOwnerId, action, options) ==
  [subject |-> [role |-> userRole, id |-> userId, hhNumber |-> Undef],
   resource |-> [type |-> resourceType, ownerId |-> resourceOwnerId,
                 patientId |-> Undef, sensitivity |-> UndefNum],
   action |-> action,
   context |-> [permissionGranted |-> options.hasPermission,
                isEmergency |-> options.isEmergency]]

canAccess(userRole, userId, resourceType, resourceOwnerId, action, options) ==
  evaluateAccess(CanAccessRequest(userRole, userId, resourceType, resourceOwnerId,
                                  action, options))

\* ------------------------------------------------------------------------
\* Policies a caller adds at runtime (inputs of addPolicy)
\* ------------------------------------------------------------------------
customPolicies == <<
  \* no subjects / resources / conditions keys: matches every request
  [id |-> "custom-allow-all", description |-> "Allow everything", effect |-> "allow",
   subjects |-> NoCriteria, resources |-> NoCriteria, actions |-> StarM,
   conditions |-> NoConditions],
  \* a second deny that overlaps deny-restricted-default at RESTRICTED
  [id |-> "custom-deny-sensitive", description |-> "Deny restricted and top secret data",
   effect |-> "deny",
   subjects |-> Criteria(<< <<"role", StarM>> >>),
   resources |-> Criteria(<< <<"sensitivity", ArrayM({SENSITIVITY.RESTRICTED,
                                                      SENSITIVITY.TOP_SECRET})>> >>),
   actions |-> StarM, conditions |-> EmptyConditions],
  \* array subject matcher, scalar resource and action matchers, a time range
  [id |-> "custom-deny-after-hours", description |-> "No staff reads after hours",
   effect |-> "deny",
   subjects |-> Criteria(<< <<"role", ArrayM({ROLES.DOCTOR, ROLES.DIAGNOSTIC})>> >>),
   resources |-> Criteria(<< <<"type", ScalarM(RESOURCES.PATIENT_RECORD)>>,
                             <<"sensitivity", StarM>> >>),
   actions |-> ScalarM(ACTIONS_.READ),
   conditions |-> [EmptyConditions EXCEPT !.timeRange = TimeRange(18, 23)]],
  \* an effect that is neither 'allow' nor 'deny' passes addPolicy's check
  [id |-> "custom-log-only", description |-> "Observe every request", effect |-> "log",
   subjects |-> NoCriteria, resources |-> NoCriteria, actions |-> StarM,
   conditions |-> NoConditions],
  \* rejected by addPolicy: no id
  [id |-> Undef, description |-> "Nameless", effect |-> "allow",
   subjects |-> NoCriteria, resources |-> NoCriteria, actions |-> StarM,
   conditions |-> NoConditions],
  \* a resource matcher on the default sensitivity level
  [id |-> "custom-allow-internal", description |-> "Internal data is open to all",
   effect |-> "allow",
   subjects |-> NoCriteria,
   resources |-> Criteria(<< <<"sensitivity", ScalarM(SENSITIVITY.INTERNAL)>> >>),
   actions |-> StarM, conditions |-> NoConditions]
>>

\* ------------------------------------------------------------------------
\* Bounds and input sets
\* ------------------------------------------------------------------------
MaxEvalCalls == 2     \* evaluateAccess calls per behaviour of SpecEval

AllRoles == {ROLES.PATIENT, ROLES.DOCTOR, ROLES.DIAGNOSTIC, ROLES.ADMIN, ROLES.EMERGENCY}
AllTypes == {RESOURCES.PATIENT_RECORD, RESOURCES.MEDICAL_HISTORY,
             RESOURCES.DIAGNOSTIC_REPORT, RESOURCES.PRESCRIPTION, RESOURCES.LAB_RESULTS,
             RESOURCES.PERSONAL_INFO, RESOURCES.BILLING}
AllActions == {ACTIONS_.READ, ACTIONS_.WRITE, ACTIONS_.UPDATE, ACTIONS_.DELETE,
               ACTIONS_.SHARE, ACTIONS_.DOWNLOAD}
\* declared sensitivities, and none declared
AllSensitivities == {UndefNum, SENSITIVITY.PUBLIC, SENSITIVITY.INTERNAL,
                     SENSITIVITY.CONFIDENTIAL, SENSITIVITY.RESTRICTED,
                     SENSITIVITY.TOP_SECRET}
AllContexts == [permissionGranted : BOOLEAN, isEmergency : BOOLEAN]

\* requests that exercise every role, type, action, sensitivity and context
PolicyRequests ==
  [subject : [role : {ROLES.PATIENT}, id : {"P1", "P2"}, hhNumber : {Undef}] \cup
             [role : AllRoles \ {ROLES.PATIENT}, id : {"D1"}, hhNumber : {Undef}],
   resource : [type : AllTypes, ownerId : {"P1"}, patientId : {Undef},
               sensitivity : AllSensitivities],
   action : AllActions,
   context : AllContexts]

\* requests that exercise the identity fields: no subject record, missing or
\* empty id / ownerId, the hhNumber / patientId fallbacks
IdentityRequests ==
  [subject : {NullSubject} \cup
             [role : {ROLES.PATIENT, ROLES.DOCTOR}, id : {Undef, "", "P1"},
              hhNumber : {Undef, "P1"}],
   resource : [type : {RESOURCES.PATIENT_RECORD}, ownerId : {Undef, "", "P1"},
               patientId : {Undef, "P1"},
               sensitivity : {UndefNum, SENSITIVITY.INTERNAL, SENSITIVITY.RESTRICTED}],
   action : {ACTIONS_.READ, ACTIONS_.WRITE},
   context : [permissionGranted : BOOLEAN, isEmergency : {FALSE}]]

EvalRequests == PolicyRequests \cup IdentityRequests

\* pure forms of addPolicy / removePolicy, to build the stores of SpecEval
Added(pols, i) == Append(pols, customPolicies[i])
Removed(pols, policyId) == SelectSeq(pols, LAMBDA p : p.id # policyId)

\* stores reachable from the default store by addPolicy / removePolicy
EvalStores == <<
  defaultPolicies,
  Added(defaultPolicies, 1),
  Added(Added(defaultPolicies, 2), 1),
  Append(Added(Removed(defaultPolicies, "deny-restricted-default"), 2), defaultPolicies[7]),
  Added(Added(defaultPolicies, 3), 4),
  <<defaultPolicies[1]>>,
  Added(defaultPolicies, 6)
>>

\* (store, clock) pairs of SpecEval: the clock only matters to the store that
\* holds a timeRange policy
EvalSetups == ({1, 2, 3, 4, 5, 6, 7} \X {12}) \cup ({5} \X {20})

\* ------------------------------------------------------------------------
\* SpecEval: evaluateAccess as a function of (store, clock, request)
\* ------------------------------------------------------------------------
\* ------------------------------------------------------------------------
\* SecureAccessControl.sol: state after deployment
\* (departmentHash, the commitments and proofCommitment are opaque bytes32
\* values that no branch reads; they are left out of the records)
\* ------------------------------------------------------------------------
ChainUsers == {"P1", "D1", "A1"}
ChainStart == 1      \* block.timestamp of the first transaction

\* The zero values of the mappings.  registeredAt and proofCommitment are
\* written but read by no function of the contract; the model leaves them out.
UnregisteredUser == [role |-> "NONE", clearanceLevel |-> 0, isActive |-> FALSE]
NoPermission == [granted |-> FALSE, grantedAt |-> 0, expiresAt |-> 0]

\* a contract call: two string arguments, one numeric argument, the block time
ContractCall(a, b, n, at) == [a |-> a, b |-> b, n |-> n, at |-> at]
NoCall == ContractCall("", "", 0, 0)

ChainInit ==
  /\ chainCall = NoCall
  /\ userAttributes = [u \in ChainUsers |-> UnregisteredUser]
  /\ chainPermissions = [pair \in ChainUsers \X ChainUsers |-> NoPermission]
  /\ chainAuditLog = <<>>
  /\ blockTimestamp = ChainStart

\* SecurityProvider after construction: useState(null), ({}), ({}), ([])
NoUser == [hhNumber |-> Null, role |-> Null, dateOfBirth |-> Null, bloodGroup |-> Null]

\* nothing of zkProofs.js has been called
NoZkCall == [op |-> "none"]
ZkIdle ==
  /\ dateNow = 0
  /\ zkCall = NoZkCall
  /\ zkHeld = NoZkCall

SessionInit ==
  /\ currentUser = NoUser
  /\ userProofs = {}
  /\ permissions = {}
  /\ accessLog = <<>>
  /\ mounted = FALSE
  /\ pendingAuth = NoUser

InitEval ==
  /\ sys = "eval"
  /\ SessionInit /\ localStorage = NoUser
  /\ ChainInit
  /\ ZkIdle
  /\ \E setup \in EvalSetups : policies = EvalStores[setup[1]] /\ now = setup[2]
  /\ request \in EvalRequests
  /\ auditLog = <<>>
  /\ lastOp = "none"
  /\ result = NoResult

Eval_evaluateAccess ==
  /\ sys = "eval"
  /\ lastOp = "none" \/ Len(auditLog) < MaxEvalCalls
  /\ lastOp' = "evaluateAccess"
  /\ evaluateAccess(request)
  /\ UNCHANGED <<sys, zkVars, now, sessionVars, chainVars, chainCall>>

NextEval == Eval_evaluateAccess

SpecEval == InitEval /\ [][NextEval]_vars


\* ------------------------------------------------------------------------
\* Properties of evaluateAccess (checked under SpecEval)
\* ------------------------------------------------------------------------

\* the last call was evaluateAccess and it returned a Decision
EvalReturned == lastOp = "evaluateAccess" /\ result.kind = "return"

\* indices of the store's policies of the given effect whose four matchers
\* hold for the evaluated request
MatchingIdx(effect) ==
  LET context == fullContext(request, HourOf(now))
  IN  {i \in 1..Len(policies) :
         /\ policies[i].effect = effect
         /\ matchSubject(policies[i].subjects, request.subject)
         /\ matchResource(policies[i].resources, request.resource)
         /\ matchAction(policies[i].actions, request.action)
         /\ evaluateConditions(policies[i].conditions, context)}

MinOf(S) == CHOOSE i \in S : \A j \in S : i <= j

\* C1 (deny-overrides): whenever a deny policy and an allow policy both match
\* the request, the Decision evaluateAccess returns has allowed = false.
C1_DenyOverrides ==
  (EvalReturned /\ MatchingIdx("deny") # {} /\ MatchingIdx("allow") # {})
     => result.value.allowed = FALSE

\* a deny and an allow policy matched one evaluated request
C1_Witness ==
  /\ EvalReturned
  /\ MatchingIdx("deny") # {} /\ MatchingIdx("allow") # {}
  /\ result.value.allowed = FALSE

\* the same policies in another insertion order: two swapped, reversed, rotated
Swapped(pols, i, j) == [pols EXCEPT ![i] = pols[j], ![j] = pols[i]]
Reversed(pols) == [i \in 1..Len(pols) |-> pols[Len(pols) + 1 - i]]
Rotated(pols) == IF pols = <<>> THEN pols ELSE Append(Tail(pols), Head(pols))
\* P holds of every such reordering of pols
ForAllReorderings(pols, P(_)) ==
  /\ \A i \in 1..Len(pols) : \A j \in (i + 1)..Len(pols) : P(Swapped(pols, i, j))
  /\ P(Reversed(pols))
  /\ P(Rotated(pols))

\* every earlier call of this behaviour (same store, request and clock) logged
\* the Decision the last call returned
RepeatedCallsAgree ==
  \A k \in 1..Len(auditLog) :
     /\ auditLog[k].decision = (IF result.value.allowed THEN "ALLOW" ELSE "DENY")
     /\ auditLog[k].policy = result.value.policy
     /\ auditLog[k].reason = result.value.reason

\* C2 as stated (order independence of the whole Decision): a store holding the
\* same policies in another order returns the identical Decision (allowed,
\* reason and policy id).
C2_Original_SameDecision ==
  EvalReturned =>
    /\ ForAllReorderings(policies,
                          LAMBDA q : Decide(q, request, HourOf(now)) = result.value)
    /\ RepeatedCallsAgree

\* C2 amended: a store holding the same policies in another order returns the
\* same allowed value, and repeated calls on an unchanged store at the same
\* clock hour return the identical Decision.
C2_SameAllowed ==
  EvalReturned =>
    /\ ForAllReorderings(policies,
          LAMBDA q : Decide(q, request, HourOf(now)).allowed = result.value.allowed)
    /\ RepeatedCallsAgree

\* a second call was made, and some reordering of the store changes the policy
\* id of the Decision while none changes allowed
C2_Witness ==
  /\ EvalReturned
  /\ Len(auditLog) = 2
  /\ ~ForAllReorderings(policies,
        LAMBDA q : Decide(q, request, HourOf(now)).policy = result.value.policy)
  /\ ForAllReorderings(policies,
        LAMBDA q : Decide(q, request, HourOf(now)).allowed = result.value.allowed)

\* C3 (combining algorithm): the Decision carries the id of the first matching
\* deny policy in store order with allowed = false if a deny policy matches,
\* else the id of the first matching allow policy with allowed = true, else
\* allowed = false, reason 'No matching policy found' and no policy id.
C3_Combining ==
  EvalReturned =>
    LET D == MatchingIdx("deny")
        A == MatchingIdx("allow")
    IN  IF D # {}
        THEN /\ result.value.allowed = FALSE
             /\ result.value.policy = policies[MinOf(D)].id
             /\ result.value.reason = policies[MinOf(D)].description
        ELSE IF A # {}
        THEN /\ result.value.allowed = TRUE
             /\ result.value.policy = policies[MinOf(A)].id
             /\ result.value.reason = policies[MinOf(A)].description
        ELSE result.value = [allowed |-> FALSE, reason |-> "No matching policy found",
                             policy |-> Null]

\* two deny policies and an allow policy matched: the tie-break decided
C3_Witness ==
  /\ EvalReturned
  /\ Cardinality(MatchingIdx("deny")) >= 2
  /\ MatchingIdx("allow") # {}
  /\ result.value.policy = policies[MinOf(MatchingIdx("deny"))].id

\* C8 (never throws): every evaluateAccess call returns a Decision, and the
\* Decision has allowed = false when the request has no subject record or
\* matches no policy.
C8_NeverThrows ==
  lastOp = "evaluateAccess" =>
    /\ result.kind = "return"
    /\ (request.subject = NullSubject
        \/ (MatchingIdx("deny") = {} /\ MatchingIdx("allow") = {}))
         => result.value.allowed = FALSE

\* the subject record is present but carries neither id nor hhNumber
NoIdentifier(subject) ==
  subject # NullSubject /\ ~Truthy(subject.id) /\ ~Truthy(subject.hhNumber)

\* C9 (no substitute identity): evaluateAccess never returns allowed = true for
\* a subject that has neither id nor hhNumber.
C9_NoIdNeverAllowed ==
  (lastOp = "evaluateAccess" /\ NoIdentifier(request.subject))
     => ~(result.kind = "return" /\ result.value.allowed)

\* a patient asks for an action on a resource type that a patient ALLOW policy
\* of the default store covers
PatientCovered(req) ==
  /\ req.subject.role = ROLES.PATIENT
  /\ \/ /\ req.action \in {ACTIONS_.READ, ACTIONS_.DOWNLOAD}
        /\ req.resource.type \in {RESOURCES.PATIENT_RECORD, RESOURCES.MEDICAL_HISTORY,
                                  RESOURCES.LAB_RESULTS}
     \/ /\ req.action = ACTIONS_.SHARE
        /\ req.resource.type \in {RESOURCES.PATIENT_RECORD, RESOURCES.MEDICAL_HISTORY}

DeclaredSensitivities == AllSensitivities \ {UndefNum}

\* C10 as stated (ownership self-access at any declared sensitivity): with the
\* default store a patient is allowed every covered action on a resource whose
\* ownerId equals the patient's id, whatever its declared sensitivity.
C10_Original_AnySensitivity ==
  (/\ EvalReturned
   /\ policies = defaultPolicies
   /\ PatientCovered(request)
   /\ request.resource.ownerId = request.subject.id
   /\ request.resource.sensitivity \in DeclaredSensitivities)
     => result.value.allowed = TRUE

\* C10 amended: with the default store a patient is allowed every covered
\* action on a resource whose ownerId equals the patient's id, a non-empty
\* identifier, at every declared sensitivity other than RESTRICTED, also when
\* context.permissionGranted is false.
C10_OwnAccess ==
  (/\ EvalReturned
   /\ policies = defaultPolicies
   /\ PatientCovered(request)
   /\ request.resource.ownerId = request.subject.id
   /\ Truthy(request.subject.id)
   /\ request.resource.sensitivity \in DeclaredSensitivities \ {SENSITIVITY.RESTRICTED})
     => result.value.allowed = TRUE

\* a patient was allowed to share an own TOP_SECRET record without permission
C10_Witness ==
  /\ EvalReturned
  /\ policies = defaultPolicies
  /\ PatientCovered(request)
  /\ request.resource.ownerId = request.subject.id
  /\ Truthy(request.subject.id)
  /\ request.resource.sensitivity = SENSITIVITY.TOP_SECRET
  /\ request.action = ACTIONS_.SHARE
  /\ ~request.context.permissionGranted
  /\ result.value.allowed = TRUE


\* ------------------------------------------------------------------------
\* SecurityProvider (the session): operations as actions
\* ------------------------------------------------------------------------
AccessLogKeep == 99    \* prev.slice(-99)

\* Array.prototype.slice(-n): the last n elements
SliceLast(seq, n) ==
  IF Len(seq) <= n THEN seq ELSE SubSeq(seq, Len(seq) - n + 1, Len(seq))

NotAuthenticated == [allowed |-> FALSE, reason |-> "User not authenticated", policy |-> Undef]

\* the key grantPermission / revokePermission / hasPermission use
PermissionKey(grantor, grantee) == grantor \o ":" \o grantee

\* the request SecurityProvider.canAccess hands to the engine;
\* options = [sensitivity, hasPermission, isEmergency]
SessionRequest(user, perms, resourceType, resourceOwnerId, action, options) ==
  [subject |-> [role |-> user.role, id |-> user.hhNumber, hhNumber |-> user.hhNumber],
   resource |-> [type |-> resourceType, ownerId |-> resourceOwnerId, patientId |-> Undef,
                 sensitivity |-> OrElseNum(options.sensitivity, SENSITIVITY.INTERNAL)],
   action |-> action,
   context |-> [permissionGranted |-> (resourceOwnerId \in perms) \/ options.hasPermission,
                isEmergency |-> options.isEmergency]]

AccessLogEntry(user, resourceType, resourceOwnerId, action, decision, timestamp) ==
  [timestamp |-> timestamp, user |-> user.hhNumber, resource |-> resourceType,
   owner |-> resourceOwnerId, action |-> action, decision |-> decision.allowed,
   reason |-> decision.reason]

\* the mount effect: restore the user saved in localStorage
Session_loadPersisted ==
  /\ ~mounted
  /\ mounted' = TRUE
  /\ currentUser' = IF localStorage # NoUser THEN localStorage ELSE currentUser
  /\ result' = Returned(Undef)
  /\ UNCHANGED <<engineVars, userProofs, permissions, accessLog, localStorage, pendingAuth>>

\* userData = [hhNumber, dateOfBirth, bloodGroup].  authenticateUser is async:
\* the call builds `user` and then awaits the proofs; other handlers run
\* meanwhile.  This is the call, up to the first await.
authenticateUser(userData, role) ==
  LET user == [hhNumber |-> userData.hhNumber, role |-> role,
               dateOfBirth |-> userData.dateOfBirth, bloodGroup |-> userData.bloodGroup]
  IN  /\ pendingAuth' = user
      /\ result' = Returned("Promise")
      /\ UNCHANGED <<engineVars, currentUser, userProofs, permissions, accessLog,
                     localStorage, mounted>>

\* authenticateUser after its awaits: the setters, localStorage.setItem, return
authenticateUser_resume ==
  LET user == pendingAuth
  IN  /\ pendingAuth # NoUser
      /\ currentUser' = user
      /\ userProofs' = {"roleProof"}
                       \cup (IF Truthy(user.dateOfBirth) THEN {"ageVerified"} ELSE {})
                       \cup (IF Truthy(user.bloodGroup)
                             THEN {"bloodGroupCommitment"} ELSE {})
      /\ localStorage' = user
      /\ pendingAuth' = NoUser
      /\ result' = Returned(user)
      /\ UNCHANGED <<engineVars, permissions, accessLog, mounted>>

logout ==
  /\ currentUser' = NoUser
  /\ userProofs' = {}
  /\ permissions' = {}
  /\ localStorage' = NoUser
  /\ result' = Returned(Undef)
  /\ UNCHANGED <<engineVars, accessLog, mounted, pendingAuth>>

\* canAccess without its first statement: reading currentUser.role of null throws
Session_canAccess_NoFastPath(resourceType, resourceOwnerId, action, options) ==
  IF currentUser = NoUser
  THEN /\ result' = Thrown("TypeError")
       /\ UNCHANGED <<engineVars, sessionVars>>
  ELSE /\ evaluateAccess(SessionRequest(currentUser, permissions, resourceType,
                                        resourceOwnerId, action, options))
       /\ accessLog' = Append(SliceLast(accessLog, AccessLogKeep),
                              AccessLogEntry(currentUser, resourceType, resourceOwnerId,
                                             action, result'.value, now))
       /\ UNCHANGED <<currentUser, userProofs, permissions, localStorage, mounted,
                      pendingAuth>>

Session_canAccess(resourceType, resourceOwnerId, action, options) ==
  IF currentUser = NoUser
  THEN /\ result' = Returned(NotAuthenticated)
       /\ UNCHANGED <<engineVars, sessionVars>>
  ELSE /\ evaluateAccess(SessionRequest(currentUser, permissions, resourceType,
                                        resourceOwnerId, action, options))
       /\ accessLog' = Append(SliceLast(accessLog, AccessLogKeep),
                              AccessLogEntry(currentUser, resourceType, resourceOwnerId,
                                             action, result'.value, now))
       /\ UNCHANGED <<currentUser, userProofs, permissions, localStorage, mounted,
                      pendingAuth>>

grantPermission(targetUserId) ==
  /\ IF currentUser = NoUser
     THEN result' = Returned(FALSE) /\ UNCHANGED permissions
     ELSE /\ permissions' = permissions \cup {PermissionKey(currentUser.hhNumber, targetUserId)}
          /\ result' = Returned(TRUE)
  /\ UNCHANGED <<engineVars, currentUser, userProofs, accessLog, localStorage, mounted,
                 pendingAuth>>

revokePermission(targetUserId) ==
  /\ IF currentUser = NoUser
     THEN result' = Returned(FALSE) /\ UNCHANGED permissions
     ELSE /\ permissions' = permissions \ {PermissionKey(currentUser.hhNumber, targetUserId)}
          /\ result' = Returned(TRUE)
  /\ UNCHANGED <<engineVars, currentUser, userProofs, accessLog, localStorage, mounted,
                 pendingAuth>>

hasPermission(patientId, doctorId) ==
  /\ result' = Returned(PermissionKey(patientId, doctorId) \in permissions)
  /\ UNCHANGED <<engineVars, sessionVars>>

\* ------------------------------------------------------------------------
\* SecureAccessControl.sol: the functions, as actions.  A failed require
\* reverts: the state is unchanged and the call throws.
\* ------------------------------------------------------------------------
EmergencyWindow == 86400     \* 24 hours, in seconds
MaxClearance == 4
SensitivityRestricted == 3   \* the last member of enum Sensitivity

Reverted(msg) ==
  /\ result' = Thrown(msg)
  /\ UNCHANGED chainVars

registerUserAttributes(hhNumber, role, clearanceLevel) ==
  IF userAttributes[hhNumber].role # "NONE" THEN Reverted("User already registered")
  ELSE IF role = "NONE" THEN Reverted("Invalid role")
  ELSE IF clearanceLevel > MaxClearance THEN Reverted("Invalid clearance level")
  ELSE /\ userAttributes' = [userAttributes EXCEPT ![hhNumber] =
                               [role |-> role, clearanceLevel |-> clearanceLevel,
                                isActive |-> TRUE]]
       /\ result' = Returned(Undef)
       /\ UNCHANGED <<chainPermissions, chainAuditLog, blockTimestamp>>

\* mutant: a duration of 0 is not taken as "no expiry"
grantPermissionZK_AlwaysExpires(patientNumber, doctorNumber, duration) ==
  IF ~userAttributes[patientNumber].isActive THEN Reverted("User not active")
  ELSE IF userAttributes[patientNumber].role # "PATIENT"
  THEN Reverted("Only patients can grant permissions")
  ELSE IF userAttributes[doctorNumber].role \notin {"DOCTOR", "DIAGNOSTIC"}
  THEN Reverted("Can only grant to healthcare providers")
  ELSE /\ chainPermissions' = [chainPermissions EXCEPT ![<<patientNumber, doctorNumber>>] =
            [granted |-> TRUE, grantedAt |-> blockTimestamp,
             expiresAt |-> blockTimestamp + duration]]
       /\ result' = Returned(Undef)
       /\ UNCHANGED <<userAttributes, chainAuditLog, blockTimestamp>>

\* mutant: the role of the grantee is not looked at
grantPermissionZK_AnyGrantee(patientNumber, doctorNumber, duration) ==
  IF ~userAttributes[patientNumber].isActive THEN Reverted("User not active")
  ELSE IF userAttributes[patientNumber].role # "PATIENT"
  THEN Reverted("Only patients can grant permissions")
  ELSE /\ chainPermissions' = [chainPermissions EXCEPT ![<<patientNumber, doctorNumber>>] =
            [granted |-> TRUE, grantedAt |-> blockTimestamp,
             expiresAt |-> IF duration > 0 THEN blockTimestamp + duration ELSE 0]]
       /\ result' = Returned(Undef)
       /\ UNCHANGED <<userAttributes, chainAuditLog, blockTimestamp>>

grantPermissionZK(patientNumber, doctorNumber, duration) ==
  IF ~userAttributes[patientNumber].isActive THEN Reverted("User not active")
  ELSE IF userAttributes[patientNumber].role # "PATIENT"
  THEN Reverted("Only patients can grant permissions")
  ELSE IF userAttributes[doctorNumber].role \notin {"DOCTOR", "DIAGNOSTIC"}
  THEN Reverted("Can only grant to healthcare providers")
  ELSE /\ chainPermissions' = [chainPermissions EXCEPT ![<<patientNumber, doctorNumber>>] =
            [granted |-> TRUE, grantedAt |-> blockTimestamp,
             expiresAt |-> IF duration > 0 THEN blockTimestamp + duration ELSE 0]]
       /\ result' = Returned(Undef)
       /\ UNCHANGED <<userAttributes, chainAuditLog, blockTimestamp>>

\* mutant: the relation is deleted (all its fields reset)
SAC_revokePermission_Delete(patientNumber, doctorNumber) ==
  IF ~userAttributes[patientNumber].isActive THEN Reverted("User not active")
  ELSE IF ~chainPermissions[<<patientNumber, doctorNumber>>].granted
  THEN Reverted("Permission not found")
  ELSE /\ chainPermissions' = [chainPermissions EXCEPT
                                 ![<<patientNumber, doctorNumber>>] = NoPermission]
       /\ result' = Returned(Undef)
       /\ UNCHANGED <<userAttributes, chainAuditLog, blockTimestamp>>

\* mutant: no require on the relation; the call always succeeds
SAC_revokePermission_Silent(patientNumber, doctorNumber) ==
  IF ~userAttributes[patientNumber].isActive THEN Reverted("User not active")
  ELSE /\ chainPermissions' = [chainPermissions EXCEPT
                                 ![<<patientNumber, doctorNumber>>].granted = FALSE]
       /\ result' = Returned(Undef)
       /\ UNCHANGED <<userAttributes, chainAuditLog, blockTimestamp>>

SAC_revokePermission(patientNumber, doctorNumber) ==
  IF ~userAttributes[patientNumber].isActive THEN Reverted("User not active")
  ELSE IF ~chainPermissions[<<patientNumber, doctorNumber>>].granted
  THEN Reverted("Permission not found")
  ELSE /\ chainPermissions' = [chainPermissions EXCEPT
                                 ![<<patientNumber, doctorNumber>>].granted = FALSE]
       /\ result' = Returned(Undef)
       /\ UNCHANGED <<userAttributes, chainAuditLog, blockTimestamp>>

\* mutant: the expiry is not looked at
isPermissionValid_IgnoreExpiry(perms, timestamp, patientNumber, doctorNumber) ==
  perms[<<patientNumber, doctorNumber>>].granted

isPermissionValid(perms, timestamp, patientNumber, doctorNumber) ==
  LET perm == perms[<<patientNumber, doctorNumber>>]
  IN  IF ~perm.granted THEN FALSE
      ELSE IF perm.expiresAt > 0 /\ timestamp > perm.expiresAt THEN FALSE
      ELSE TRUE

\* mutant: whether the user is active is not looked at
SAC_Allowed_IgnoreActive(users, perms, timestamp, userId, resourceOwnerId, resourceSensitivity) ==
  LET user == users[userId]
  IN  IF userId = resourceOwnerId THEN TRUE
      ELSE IF user.role \in {"DOCTOR", "DIAGNOSTIC"}
      THEN IF ~isPermissionValid(perms, timestamp, resourceOwnerId, userId) THEN FALSE
           ELSE IF resourceSensitivity > user.clearanceLevel THEN FALSE
           ELSE TRUE
      ELSE IF user.role = "ADMIN" THEN TRUE
      ELSE FALSE

\* the value SecureAccessControl.evaluateAccess returns (and logs)
SAC_Allowed(users, perms, timestamp, userId, resourceOwnerId, resourceSensitivity) ==
  LET user == users[userId]
  IN  IF ~user.isActive THEN FALSE
      ELSE IF userId = resourceOwnerId THEN TRUE
      ELSE IF user.role \in {"DOCTOR", "DIAGNOSTIC"}
      THEN IF ~isPermissionValid(perms, timestamp, resourceOwnerId, userId) THEN FALSE
           ELSE IF resourceSensitivity > user.clearanceLevel THEN FALSE
           ELSE TRUE
      ELSE IF user.role = "ADMIN" THEN TRUE
      ELSE FALSE

\* _logAccess: the entry pushed to auditLog
logAccess(log, userId, resourceId, action, allowed, timestamp) ==
  Append(log, [userId |-> userId, resourceId |-> resourceId, action |-> action,
               allowed |-> allowed, timestamp |-> timestamp])

SAC_evaluateAccess(userId, resourceOwnerId, resourceType, resourceSensitivity, action) ==
  LET allowed == SAC_Allowed(userAttributes, chainPermissions, blockTimestamp,
                             userId, resourceOwnerId, resourceSensitivity)
  IN  /\ chainAuditLog' = logAccess(chainAuditLog, userId, resourceType, action, allowed,
                                    blockTimestamp)
      /\ result' = Returned(allowed)
      /\ UNCHANGED <<userAttributes, chainPermissions, blockTimestamp>>

emergencyAccess(emergencyUserId, patientId) ==
  IF userAttributes[emergencyUserId].role \notin {"EMERGENCY", "ADMIN"}
  THEN Reverted("Not authorized for emergency access")
  ELSE IF ~userAttributes[emergencyUserId].isActive THEN Reverted("User not active")
  ELSE /\ chainPermissions' = [chainPermissions EXCEPT ![<<patientId, emergencyUserId>>] =
            [granted |-> TRUE, grantedAt |-> blockTimestamp,
             expiresAt |-> blockTimestamp + EmergencyWindow]]
       /\ result' = Returned(TRUE)
       /\ UNCHANGED <<userAttributes, chainAuditLog, blockTimestamp>>

updateClearanceLevel(adminId, userId, newLevel) ==
  IF userAttributes[adminId].role # "ADMIN" THEN Reverted("Insufficient role")
  ELSE IF newLevel > MaxClearance THEN Reverted("Invalid clearance level")
  ELSE /\ userAttributes' = [userAttributes EXCEPT ![userId].clearanceLevel = newLevel]
       /\ result' = Returned(Undef)
       /\ UNCHANGED <<chainPermissions, chainAuditLog, blockTimestamp>>

deactivateUser(adminId, userId) ==
  IF userAttributes[adminId].role # "ADMIN" THEN Reverted("Insufficient role")
  ELSE /\ userAttributes' = [userAttributes EXCEPT ![userId].isActive = FALSE]
       /\ result' = Returned(Undef)
       /\ UNCHANGED <<chainPermissions, chainAuditLog, blockTimestamp>>

\* ------------------------------------------------------------------------
\* Spec: a run of the engine API ("engine") or of the session ("session")
\* ------------------------------------------------------------------------
AuditCapacity == 1   \* a retention window N to test the engine's log against
MaxAudit == AuditCapacity + 1        \* evaluateAccess calls per behaviour (the log itself is unbounded)
MaxPolicies == 9     \* addPolicy is not called on a store of this size
MaxTicks == 1        \* clock advances per behaviour
ClockStart == 12
TickHours == 8

EngineRequests ==
  { [subject |-> [role |-> ROLES.PATIENT, id |-> "P1", hhNumber |-> Undef],
     resource |-> [type |-> RESOURCES.PATIENT_RECORD, ownerId |-> "P1",
                   patientId |-> Undef, sensitivity |-> UndefNum],
     action |-> ACTIONS_.READ,
     context |-> [permissionGranted |-> FALSE, isEmergency |-> FALSE]],
    [subject |-> [role |-> ROLES.DOCTOR, id |-> "D1", hhNumber |-> Undef],
     resource |-> [type |-> RESOURCES.PATIENT_RECORD, ownerId |-> "P1",
                   patientId |-> Undef, sensitivity |-> SENSITIVITY.RESTRICTED],
     action |-> ACTIONS_.READ,
     context |-> [permissionGranted |-> TRUE, isEmergency |-> FALSE]],
    [subject |-> NullSubject,
     resource |-> [type |-> RESOURCES.PATIENT_RECORD, ownerId |-> "P1",
                   patientId |-> Undef, sensitivity |-> UndefNum],
     action |-> ACTIONS_.READ,
     context |-> [permissionGranted |-> FALSE, isEmergency |-> FALSE]] }

EngineAddable == {1, 4, 5}      \* indices into customPolicies
EngineRemovable == {"deny-restricted-default", "custom-allow-all"}
EngineFilters ==
  { [subject |-> Undef, decision |-> Undef, since |-> UndefNum],
    [subject |-> "P1", decision |-> "ALLOW", since |-> UndefNum],
    [subject |-> Undef, decision |-> "DENY", since |-> ClockStart + TickHours] }

SessionUsers ==
  { <<[hhNumber |-> "P1", dateOfBirth |-> "1990-01-15", bloodGroup |-> "O+"], ROLES.PATIENT>>,
    <<[hhNumber |-> "D1", dateOfBirth |-> Undef, bloodGroup |-> Undef], ROLES.DOCTOR>> }
SessionOptions ==
  { [sensitivity |-> UndefNum, hasPermission |-> FALSE, isEmergency |-> FALSE],
    [sensitivity |-> SENSITIVITY.RESTRICTED, hasPermission |-> TRUE, isEmergency |-> FALSE] }

\* <<resourceType, resourceOwnerId, action>> of the session's canAccess calls
SessionCalls ==
  { <<RESOURCES.PATIENT_RECORD, "P1", ACTIONS_.READ>>,
    <<RESOURCES.PRESCRIPTION, "P1", ACTIONS_.WRITE>>,
    <<RESOURCES.BILLING, Undef, ACTIONS_.DELETE>> }

MaxChainAudit == 1   \* evaluateAccess calls of the contract in one behaviour
MaxChainTime == 3    \* block.timestamp does not advance past this
ChainRegistrations == {<<"P1", "PATIENT", 0>>, <<"D1", "DOCTOR", 2>>, <<"A1", "ADMIN", 4>>,
                       <<"D1", "NONE", 0>>, <<"D1", "EMERGENCY", 2>>}
ChainDurations == {0, 1}
\* <<userId, resourceSensitivity>> of the contract's evaluateAccess calls
ChainAccesses == {<<"P1", 1>>, <<"D1", 1>>, <<"D1", SensitivityRestricted>>,
                  <<"A1", SensitivityRestricted>>}
ChainLevels == {0, MaxClearance + 1}

Init ==
  /\ sys \in {"engine", "session", "chain"}
  /\ policies = defaultPolicies
  /\ auditLog = <<>>
  /\ now = ClockStart
  /\ lastOp = "none"
  /\ request = CHOOSE r \in EngineRequests : r.subject = NullSubject
  /\ result = NoResult
  /\ SessionInit
  /\ ChainInit
  /\ ZkIdle
  /\ localStorage \in {NoUser} \cup
        (IF sys = "session"
         THEN {[hhNumber |-> "P1", role |-> ROLES.PATIENT,
                dateOfBirth |-> "1990-01-15", bloodGroup |-> "O+"]}
         ELSE {})

Engine_evaluateAccess ==
  /\ sys = "engine" /\ Len(auditLog) < MaxAudit
  /\ \E req \in EngineRequests : evaluateAccess(req)
  /\ lastOp' = "evaluateAccess"
  /\ UNCHANGED <<sys, zkVars, now, sessionVars, chainVars, chainCall>>

Engine_canAccess ==
  /\ sys = "engine" /\ Len(auditLog) < MaxAudit
  /\ \E hasPerm \in BOOLEAN :
        canAccess(ROLES.DOCTOR, "D1", RESOURCES.PATIENT_RECORD, "P1", ACTIONS_.READ,
                  [hasPermission |-> hasPerm, isEmergency |-> FALSE])
  /\ lastOp' = "canAccess"
  /\ UNCHANGED <<sys, zkVars, now, sessionVars, chainVars, chainCall>>

Engine_addPolicy ==
  /\ sys = "engine" /\ Len(policies) < MaxPolicies
  /\ \E i \in EngineAddable : addPolicy(customPolicies[i])
  /\ lastOp' = "addPolicy"
  /\ UNCHANGED <<sys, zkVars, now, sessionVars, chainVars, chainCall>>

Engine_removePolicy ==
  /\ sys = "engine"
  /\ \E policyId \in EngineRemovable : removePolicy(policyId)
  /\ lastOp' = "removePolicy"
  /\ UNCHANGED <<sys, zkVars, now, sessionVars, chainVars, chainCall>>

Engine_getAuditLog ==
  /\ sys = "engine"
  /\ \E filter \in EngineFilters : getAuditLog(filter)
  /\ lastOp' = "getAuditLog"
  /\ UNCHANGED <<sys, zkVars, now, sessionVars, chainVars, chainCall>>

Engine_clearAuditLog ==
  /\ sys = "engine"
  /\ clearAuditLog
  /\ lastOp' = "clearAuditLog"
  /\ UNCHANGED <<sys, zkVars, now, sessionVars, chainVars, chainCall>>

Engine_getPolicies ==
  /\ sys = "engine"
  /\ getPolicies
  /\ lastOp' = "getPolicies"
  /\ UNCHANGED <<sys, zkVars, now, sessionVars, chainVars, chainCall>>

\* the wall clock advances between calls
Tick ==
  /\ sys \in {"engine", "session"}
  /\ now < ClockStart + MaxTicks * TickHours
  /\ now' = now + TickHours
  /\ UNCHANGED <<sys, zkVars, engineVars, lastOp, result, sessionVars, chainVars, chainCall>>

Sess_loadPersisted ==
  /\ sys = "session"
  /\ Session_loadPersisted
  /\ lastOp' = "loadPersisted"
  /\ UNCHANGED <<sys, zkVars, now, chainVars, chainCall>>

\* one authenticateUser call is in flight at a time
Sess_authenticateUser ==
  /\ sys = "session"
  /\ pendingAuth = NoUser
  /\ \E u \in SessionUsers : authenticateUser(u[1], u[2])
  /\ lastOp' = "authenticateUser"
  /\ UNCHANGED <<sys, zkVars, now, chainVars, chainCall>>

Sess_authenticateUser_resume ==
  /\ sys = "session"
  /\ authenticateUser_resume
  /\ lastOp' = "authenticateUser.resume"
  /\ UNCHANGED <<sys, zkVars, now, chainVars, chainCall>>

Sess_logout ==
  /\ sys = "session"
  /\ logout
  /\ lastOp' = "logout"
  /\ UNCHANGED <<sys, zkVars, now, chainVars, chainCall>>

Sess_canAccess ==
  /\ sys = "session" /\ Len(auditLog) < MaxAudit
  /\ \E call \in SessionCalls, options \in SessionOptions :
        Session_canAccess(call[1], call[2], call[3], options)
  /\ lastOp' = "session.canAccess"
  /\ UNCHANGED <<sys, zkVars, now, chainVars, chainCall>>

Sess_grantPermission ==
  /\ sys = "session"
  /\ grantPermission("D1")
  /\ lastOp' = "grantPermission"
  /\ UNCHANGED <<sys, zkVars, now, chainVars, chainCall>>

Sess_revokePermission ==
  /\ sys = "session"
  /\ revokePermission("D1")
  /\ lastOp' = "revokePermission"
  /\ UNCHANGED <<sys, zkVars, now, chainVars, chainCall>>

Sess_hasPermission ==
  /\ sys = "session"
  /\ hasPermission("P1", "D1")
  /\ lastOp' = "hasPermission"
  /\ UNCHANGED <<sys, zkVars, now, chainVars, chainCall>>

Chain_registerUserAttributes ==
  /\ sys = "chain"
  /\ \E reg \in ChainRegistrations :
        /\ registerUserAttributes(reg[1], reg[2], reg[3])
        /\ chainCall' = NoCall
  /\ lastOp' = "registerUserAttributes"
  /\ UNCHANGED <<sys, zkVars, now, engineVars, sessionVars>>

Chain_grantPermissionZK ==
  /\ sys = "chain"
  /\ \E doctor \in {"D1", "A1"}, duration \in ChainDurations :
        /\ grantPermissionZK("P1", doctor, duration)
        /\ chainCall' = ContractCall("P1", doctor, duration, blockTimestamp)
  /\ lastOp' = "grantPermissionZK"
  /\ UNCHANGED <<sys, zkVars, now, engineVars, sessionVars>>

Chain_revokePermission ==
  /\ sys = "chain"
  /\ \E doctor \in {"D1", "A1"} :
        /\ SAC_revokePermission("P1", doctor)
        /\ chainCall' = ContractCall("P1", doctor, 0, blockTimestamp)
  /\ lastOp' = "revokePermission"
  /\ UNCHANGED <<sys, zkVars, now, engineVars, sessionVars>>

Chain_evaluateAccess ==
  /\ sys = "chain" /\ Len(chainAuditLog) < MaxChainAudit
  /\ \E access \in ChainAccesses :
        /\ SAC_evaluateAccess(access[1], "P1", RESOURCES.PATIENT_RECORD, access[2], 0)
        /\ chainCall' = ContractCall(access[1], "P1", access[2], blockTimestamp)
  /\ lastOp' = "SAC.evaluateAccess"
  /\ UNCHANGED <<sys, zkVars, now, engineVars, sessionVars>>

Chain_emergencyAccess ==
  /\ sys = "chain"
  /\ \E user \in {"A1", "D1"} :
        /\ emergencyAccess(user, "P1")
        /\ chainCall' = NoCall
  /\ lastOp' = "emergencyAccess"
  /\ UNCHANGED <<sys, zkVars, now, engineVars, sessionVars>>

Chain_updateClearanceLevel ==
  /\ sys = "chain"
  /\ \E admin \in {"A1", "P1"}, level \in ChainLevels :
        /\ updateClearanceLevel(admin, "D1", level)
        /\ chainCall' = NoCall
  /\ lastOp' = "updateClearanceLevel"
  /\ UNCHANGED <<sys, zkVars, now, engineVars, sessionVars>>

Chain_deactivateUser ==
  /\ sys = "chain"
  /\ \E user \in {"D1", "P1"} :
        /\ deactivateUser("A1", user)
        /\ chainCall' = ContractCall("A1", user, 0, 0)
  /\ lastOp' = "deactivateUser"
  /\ UNCHANGED <<sys, zkVars, now, engineVars, sessionVars>>

\* a later block
Chain_advanceTime ==
  /\ sys = "chain"
  /\ blockTimestamp < MaxChainTime
  /\ blockTimestamp' = blockTimestamp + 1
  /\ UNCHANGED <<sys, zkVars, now, engineVars, sessionVars, lastOp, result,
                 userAttributes, chainPermissions, chainAuditLog, chainCall>>

Next ==
  \/ Chain_registerUserAttributes \/ Chain_grantPermissionZK \/ Chain_revokePermission
  \/ Chain_evaluateAccess \/ Chain_emergencyAccess \/ Chain_updateClearanceLevel
  \/ Chain_deactivateUser \/ Chain_advanceTime
  \/ Engine_evaluateAccess \/ Engine_canAccess \/ Engine_addPolicy \/ Engine_removePolicy
  \/ Engine_getAuditLog \/ Engine_clearAuditLog \/ Engine_getPolicies
  \/ Tick
  \/ Sess_loadPersisted \/ Sess_authenticateUser \/ Sess_authenticateUser_resume
  \/ Sess_logout \/ Sess_canAccess
  \/ Sess_grantPermission \/ Sess_revokePermission \/ Sess_hasPermission

Spec == Init /\ [][Next]_vars

\* ------------------------------------------------------------------------
\* Properties of the running programs (Spec)
\* ------------------------------------------------------------------------

\* a step that is a call of `op` (Tick and a later block leave lastOp alone)
Called(op) == lastOp' = op /\ now' = now /\ blockTimestamp' = blockTimestamp

\* a step that is a call of ABACEngine.evaluateAccess, direct or through canAccess
EngineEvaluateCalled ==
  \/ Called("evaluateAccess")
  \/ Called("canAccess")
  \/ (Called("session.canAccess") /\ currentUser # NoUser)

\* `after` is `before` with exactly one entry appended
AppendedOne(before, after) ==
  /\ Len(after) = Len(before) + 1
  /\ SubSeq(after, 1, Len(before)) = before

\* C4: every call of evaluateAccess, of the engine and of the contract, returns a
\* decision and appends exactly one audit entry, whose decision is the one returned.
C4_EveryCallAudited ==
  [][ /\ EngineEvaluateCalled =>
           /\ result'.kind = "return"
           /\ AppendedOne(auditLog, auditLog')
           /\ auditLog'[Len(auditLog')].decision =
                (IF result'.value.allowed THEN "ALLOW" ELSE "DENY")
      /\ Called("SAC.evaluateAccess") =>
           /\ result'.kind = "return"
           /\ AppendedOne(chainAuditLog, chainAuditLog')
           /\ chainAuditLog'[Len(chainAuditLog')].allowed = result'.value ]_vars

\* C5: the engine's audit log only grows at its end: every step leaves the log
\* it found as a prefix of the log it leaves.
C5_AppendOnly ==
  [][ /\ Len(auditLog) <= Len(auditLog')
      /\ SubSeq(auditLog', 1, Len(auditLog)) = auditLog ]_vars

\* C6: the engine's audit log never holds more than the capacity.
C6_BoundedRetention == Len(auditLog) <= AuditCapacity

\* C7: a canAccess call of the session made while no user is authenticated
\* returns allowed = false with reason 'User not authenticated', whatever the
\* resource, action and options, and the engine is not invoked: no audit entry
\* and no access-log entry is written.
C7_UnauthenticatedFastPath ==
  [][ (Called("session.canAccess") /\ currentUser = NoUser) =>
        /\ result'.kind = "return"
        /\ result'.value = NotAuthenticated
        /\ UNCHANGED <<policies, auditLog, accessLog, currentUser>> ]_vars

\* an unauthenticated call made after an authenticated one had been audited
C7_Witness ==
  /\ lastOp = "session.canAccess"
  /\ currentUser = NoUser
  /\ result.kind = "return" /\ result.value = NotAuthenticated
  /\ Len(auditLog) = 1 /\ Len(accessLog) = 1

\* the session's last call was canAccess by doctor D, authenticated, for READ on
\* patient P's patient_record with no options supplied (so the resource's
\* sensitivity is the INTERNAL default and hasPermission is not set)
DoctorReadReturned(P, D) ==
  /\ sys = "session"
  /\ lastOp = "session.canAccess"
  /\ result.kind = "return"
  /\ currentUser # NoUser
  /\ currentUser.role = ROLES.DOCTOR /\ currentUser.hhNumber = D
  /\ request.resource.type = RESOURCES.PATIENT_RECORD
  /\ request.resource.ownerId = P
  /\ request.resource.sensitivity = SENSITIVITY.INTERNAL
  /\ request.action = ACTIONS_.READ

GrantedThenWaited(patient, doctor) ==
  /\ sys = "chain"
  /\ lastOp = "grantPermissionZK"
  /\ result.kind = "return"
  /\ chainCall.a = patient /\ chainCall.b = doctor

PermissionValidNow(patient, doctor) ==
  isPermissionValid(chainPermissions, blockTimestamp, patient, doctor)

\* C12 as stated (expiry correctness): after a grant with a positive duration d
\* made at time t, and no later call, isPermissionValid is true at time t and
\* false at every time >= t + d.
C12_Original_ExpiredAtDeadline ==
  (GrantedThenWaited("P1", "D1") /\ chainCall.n > 0) =>
    /\ blockTimestamp = chainCall.at => PermissionValidNow("P1", "D1")
    /\ blockTimestamp >= chainCall.at + chainCall.n => ~PermissionValidNow("P1", "D1")

\* C12 amended: after a grant with a positive duration d made at time t, and no
\* later call, isPermissionValid is true at every time from t to t + d
\* inclusive and false at every time > t + d.
C12_ExpiryCorrect ==
  (GrantedThenWaited("P1", "D1") /\ chainCall.n > 0) =>
    (PermissionValidNow("P1", "D1") <=> blockTimestamp <= chainCall.at + chainCall.n)

\* a grant with a positive duration has expired with no revoke call
C12_Witness ==
  /\ GrantedThenWaited("P1", "D1") /\ chainCall.n > 0
  /\ blockTimestamp > chainCall.at + chainCall.n
  /\ ~PermissionValidNow("P1", "D1")

\* isPermissionValid as the rule states it, on a relation
ValidByRule(perm, timestamp) ==
  /\ perm.granted
  /\ perm.expiresAt = 0 \/ timestamp <= perm.expiresAt

ChainGrantors == {"P1"}
ChainGrantees == {"D1", "A1"}

\* C13: isPermissionValid is false for a pair with no relation, false when
\* granted = false, false when expiresAt is set and in the past, true otherwise;
\* a grant overwrites the relation of its pair; a relation granted with no
\* duration stays as it is, and valid, through every step that is neither a
\* revoke of it nor a new grant.
C13_ValidityRule ==
  /\ [](\A patient \in ChainUsers, doctor \in ChainUsers :
          /\ PermissionValidNow(patient, doctor)
               <=> ValidByRule(chainPermissions[<<patient, doctor>>], blockTimestamp)
          /\ chainPermissions[<<patient, doctor>>] = NoPermission
               => ~PermissionValidNow(patient, doctor))
  /\ [](\A patient \in ChainGrantors, doctor \in ChainGrantees :
          GrantedThenWaited(patient, doctor) =>
            /\ chainPermissions[<<patient, doctor>>] =
                 [granted |-> TRUE, grantedAt |-> chainCall.at,
                  expiresAt |-> IF chainCall.n > 0 THEN chainCall.at + chainCall.n ELSE 0]
            /\ chainCall.n = 0 => PermissionValidNow(patient, doctor))
  /\ [][\A patient \in ChainGrantors, doctor \in ChainGrantees :
          LET perm == chainPermissions[<<patient, doctor>>]
          IN  (/\ perm.granted /\ perm.expiresAt = 0
               /\ ~Called("revokePermission") /\ ~Called("grantPermissionZK"))
                => /\ chainPermissions'[<<patient, doctor>>] = perm
                   /\ isPermissionValid(chainPermissions', blockTimestamp', patient, doctor)]_vars

\* a grant with no duration is still valid two blocks later
C13_Witness ==
  /\ GrantedThenWaited("P1", "D1") /\ chainCall.n = 0
  /\ blockTimestamp >= chainCall.at + 2
  /\ PermissionValidNow("P1", "D1")

\* a step that is a call of the contract's revokePermission(patient, doctor)
ChainRevokeCalled(patient, doctor) ==
  /\ sys = "chain" /\ Called("revokePermission")
  /\ chainCall'.a = patient /\ chainCall'.b = doctor

\* a step that is a call of the session's revokePermission
SessionRevokeCalled == sys = "session" /\ Called("revokePermission")

\* C14 as stated (revoke never throws): a revoke for a pair with no granted
\* relation raises nothing, reports false and leaves the registry unchanged;
\* a revoke of an existing relation sets granted = false.
C14_Original_RevokeNeverThrows ==
  [][ /\ \A doctor \in ChainGrantees :
           ChainRevokeCalled("P1", doctor) =>
             IF chainPermissions[<<"P1", doctor>>].granted
             THEN /\ result'.kind = "return"
                  /\ ~chainPermissions'[<<"P1", doctor>>].granted
             ELSE /\ result'.kind = "return"
                  /\ result'.value = FALSE
                  /\ chainPermissions' = chainPermissions
      /\ SessionRevokeCalled =>
           /\ result'.kind = "return"
           /\ IF PermissionKey(currentUser.hhNumber, "D1") \in permissions
              THEN PermissionKey(currentUser.hhNumber, "D1") \notin permissions'
              ELSE result'.value = FALSE /\ permissions' = permissions ]_vars

\* C14 amended: the contract's revokePermission reverts, leaving the registry
\* unchanged, when the pair has no granted relation ("Permission not found")
\* or the patient is not active; otherwise it sets granted = false and keeps
\* the rest of the registry.  The session's revokePermission never throws and
\* leaves the other keys alone: with no user it returns false and changes
\* nothing, with a user it returns true, whether or not the key existed, and
\* the key is absent afterwards.
C14_RevokeOutcome ==
  [][ /\ \A doctor \in ChainGrantees :
           ChainRevokeCalled("P1", doctor) =>
             IF userAttributes["P1"].isActive /\ chainPermissions[<<"P1", doctor>>].granted
             THEN /\ result'.kind = "return"
                  /\ chainPermissions' =
                       [chainPermissions EXCEPT ![<<"P1", doctor>>].granted = FALSE]
             ELSE /\ result'.kind = "throw"
                  /\ chainPermissions' = chainPermissions
      /\ SessionRevokeCalled =>
           /\ result'.kind = "return"
           /\ IF currentUser = NoUser
              THEN result'.value = FALSE /\ permissions' = permissions
              ELSE /\ result'.value = TRUE
                   /\ permissions' = permissions \ {PermissionKey(currentUser.hhNumber, "D1")} ]_vars

\* the contract's revokePermission was called for a pair with no granted
\* relation and reverted with "Permission not found"
C14_Witness ==
  /\ sys = "chain" /\ lastOp = "revokePermission"
  /\ result.kind = "throw" /\ result.value = "Permission not found"
  /\ ~chainPermissions[<<chainCall.a, chainCall.b>>].granted

\* the last contract call was a successful revokePermission(patient, doctor);
\* since then only time has passed
RevokedThenWaited(patient, doctor) ==
  /\ sys = "chain"
  /\ lastOp = "revokePermission"
  /\ result.kind = "return"
  /\ chainCall.a = patient /\ chainCall.b = doctor

\* C15: whenever P1, registered as a patient, has a relation with granted = true to a grantee,
\* revokePermission(P1, grantee) succeeds and leaves isPermissionValid false;
\* and after a successful revoke no call other than a grant by P1 makes the
\* permission valid again.
C15_RevokeAtAnyTime ==
  [][ \A doctor \in ChainGrantees :
        /\ (/\ ChainRevokeCalled("P1", doctor)
            /\ userAttributes["P1"].role = "PATIENT"
            /\ chainPermissions[<<"P1", doctor>>].granted)
             => /\ result'.kind = "return"
                /\ ~isPermissionValid(chainPermissions', blockTimestamp', "P1", doctor)
        /\ (RevokedThenWaited("P1", doctor) /\ ~Called("grantPermissionZK"))
             => ~isPermissionValid(chainPermissions', blockTimestamp', "P1", doctor) ]_vars

\* every relation of the contract's registry that exists keeps existing
ChainRelationsKept ==
  \A pair \in ChainUsers \X ChainUsers :
    chainPermissions[pair] # NoPermission => chainPermissions'[pair] # NoPermission

\* C16 as stated (relations are never physically deleted): a relation that
\* exists, in the contract's registry or in the session's permission map,
\* exists after every step, revoke and logout included.
C16_Original_NeverDeleted ==
  [][ /\ ChainRelationsKept
      /\ permissions \subseteq permissions' ]_vars

\* C16 amended: in the contract's registry a relation that exists keeps
\* existing, and a revoke changes its granted field alone; the session's
\* permission map keeps its keys through every call except revokePermission,
\* which deletes the key it names, and logout, which empties the map.
C16_DeletedOnlyInSession ==
  [][ /\ ChainRelationsKept
      /\ \A doctor \in ChainGrantees :
           (ChainRevokeCalled("P1", doctor) /\ result'.kind = "return") =>
             chainPermissions' =
               [chainPermissions EXCEPT ![<<"P1", doctor>>].granted = FALSE]
      /\ sys = "session" =>
           IF Called("logout") THEN permissions' = {}
           ELSE IF Called("revokePermission") /\ currentUser # NoUser
           THEN permissions' = permissions \ {PermissionKey(currentUser.hhNumber, "D1")}
           ELSE permissions \subseteq permissions' ]_vars

\* a relation of the contract's registry was revoked and is still recorded
C16_Witness ==
  /\ RevokedThenWaited("P1", "D1")
  /\ ~chainPermissions[<<"P1", "D1">>].granted
  /\ chainPermissions[<<"P1", "D1">>].grantedAt > 0

\* C17: no two policies of the store have the same id, and the effect of every
\* policy is allow or deny.
C17_PolicyStoreInvariant ==
  /\ \A i \in 1..Len(policies), j \in 1..Len(policies) :
       policies[i].id = policies[j].id => i = j
  /\ \A i \in 1..Len(policies) : policies[i].effect \in {"allow", "deny"}

\* C18: a policy whose unless clause names an attribute value of the subject
\* does not match the request; with the default store an admin's request on a
\* RESTRICTED resource is therefore not decided by 'deny-restricted-default'.
C18_UnlessExempts ==
  EvalReturned =>
    LET context == fullContext(request, HourOf(now))
    IN  /\ \A i \in 1..Len(policies) :
             (policies[i].conditions.present /\ UnlessMet(policies[i].conditions, context))
               => ~PolicyMatches(policies[i], request, context)
        /\ (/\ policies = defaultPolicies
            /\ request.subject.role = ROLES.ADMIN
            /\ request.resource.sensitivity = SENSITIVITY.RESTRICTED)
             => result.value.policy # "deny-restricted-default"

\* the conditions object { sensitivityMax: bound }
SensitivityMaxOnly(bound) == [EmptyConditions EXCEPT !.sensitivityMax = bound]

\* C19: for a request whose resource declares sensitivity s, and every bound b,
\* the condition sensitivityMax b is satisfied exactly when s <= b, for every
\* declared level, PUBLIC included.
C19_SensitivityMaxOrder ==
  (EvalReturned /\ request.resource.sensitivity \in DeclaredSensitivities) =>
    \A bound \in DeclaredSensitivities :
      evaluateConditions(SensitivityMaxOnly(bound), fullContext(request, HourOf(now)))
        <=> request.resource.sensitivity <= bound

\* the request with its resource declared INTERNAL
DeclaredInternal(req) == [req EXCEPT !.resource.sensitivity = SENSITIVITY.INTERNAL]

\* C20: for every store, a request on a resource with no declared sensitivity
\* gets the Decision that the same request gets with the sensitivity declared
\* as INTERNAL.
C20_DefaultSensitivity ==
  (EvalReturned /\ request.resource.sensitivity = UndefNum) =>
    result.value = Decide(policies, DeclaredInternal(request), HourOf(now))

\* ------------------------------------------------------------------------
\* utils/zkProofs.js
\* A JavaScript value is a record of its type and of the text a template
\* literal `${v}` renders it to.
\* ------------------------------------------------------------------------
JsStr(s) == [type |-> "string", text |-> s]
JsNum(s) == [type |-> "number", text |-> s]
JsNull == [type |-> "null", text |-> "null"]

\* JS truthiness: null, "", 0 and NaN are falsy
JsTruthy(v) ==
  /\ v.type # "null"
  /\ v.type = "string" => v.text # ""
  /\ v.type = "number" => v.text \notin {"0", "NaN"}

\* `${v}`
Template(v) == v.text

\* hash(data): the hex digest of SHA-256, taken as injective on its input string
hash(data) == "H(" \o data \o ")"

\* the results generateBlindingFactor() can give (standing for 64 hex digits)
GeneratedFactors == {JsStr("0a"), JsStr("ff")}

\* createCommitment with the salt hashed as passed, not as resolved
createCommitment_HashGivenSalt(value, blindingFactor, generated) ==
  LET blinding == IF JsTruthy(blindingFactor) THEN blindingFactor ELSE generated
  IN [commitment |-> hash(Template(value) \o "||" \o Template(blindingFactor)),
      blindingFactor |-> blinding]

\* createCommitment(value, blindingFactor = null); `generated` is what
\* generateBlindingFactor() gives if it is called
createCommitment(value, blindingFactor, generated) ==
  LET blinding == IF JsTruthy(blindingFactor) THEN blindingFactor ELSE generated
  IN [commitment |-> hash(Template(value) \o "||" \o Template(blinding)),
      blindingFactor |-> blinding]

verifyCommitment(value, blindingFactor, commitment) ==
  hash(Template(value) \o "||" \o Template(blindingFactor)) = commitment

\* --- dates: Date values are minutes since the epoch, UTC ---
MinutesPerDay == 1440
\* 365.25 * 24 * 60 minutes, the divisor of createAgeProof
YearMinutes == 525960
\* 3600000 ms
HourMinutes == 60

\* days from 1970-01-01 to a date of the proleptic Gregorian calendar
DaysFromCivil(year, month, day) ==
  LET y == IF month <= 2 THEN year - 1 ELSE year
      era == y \div 400
      yoe == y - era * 400
      mp == (month + 9) % 12
      doy == (153 * mp + 2) \div 5 + day - 1
      doe == yoe * 365 + yoe \div 4 - yoe \div 100 + doy
  IN era * 146097 + doe - 719468

\* new Date("YYYY-MM-DD"): midnight UTC of that date
DateParse(date) == DaysFromCivil(date.year, date.month, date.day) * MinutesPerDay

\* createAgeProof(dateOfBirth, threshold) at Date.now() = today
createAgeProof(dateOfBirth, threshold, today, generated) ==
  LET dob == DateParse(dateOfBirth)
      age == (today - dob) \div YearMinutes
      isAboveThreshold == age >= threshold
  IN [proof |-> hash((IF isAboveThreshold THEN "true" ELSE "false") \o "|"
                     \o ToString(threshold) \o "|" \o ToString(today) \o "|"
                     \o Template(generated)),
      threshold |-> threshold,
      isValid |-> isAboveThreshold,
      timestamp |-> today]

\* createRoleProof(role, userId) at Date.now() = today; `nonce` stands for the
\* first 16 digits of a generated factor
createRoleProof(role, userId, today, generated, nonce) ==
  LET roleCommitment == hash("role:" \o role \o "|user:" \o userId \o "||"
                             \o Template(generated))
  IN [roleCommitment |-> roleCommitment,
      proofHash |-> hash(roleCommitment \o "|" \o Template(nonce)),
      nonce |-> Template(nonce),
      timestamp |-> today,
      expiresAt |-> today + HourMinutes]

\* proof[key] of a number-valued field
ProofField(proof, key) == IF key \in DOMAIN proof THEN proof[key] ELSE UndefNum

\* isProofValid expiring a proof at its deadline already
isProofValid_ExpiredAtDeadline(proof, today) ==
  IF proof = JsNull \/ ~TruthyNum(ProofField(proof, "timestamp")) THEN FALSE
  ELSE IF TruthyNum(ProofField(proof, "expiresAt"))
          /\ today >= ProofField(proof, "expiresAt") THEN FALSE
  ELSE IF ~TruthyNum(ProofField(proof, "expiresAt"))
          /\ today - proof.timestamp >= HourMinutes THEN FALSE
  ELSE TRUE

\* isProofValid(proof) at Date.now() = today
isProofValid(proof, today) ==
  IF proof = JsNull \/ ~TruthyNum(ProofField(proof, "timestamp")) THEN FALSE
  ELSE IF TruthyNum(ProofField(proof, "expiresAt"))
          /\ today > ProofField(proof, "expiresAt") THEN FALSE
  ELSE IF ~TruthyNum(ProofField(proof, "expiresAt"))
          /\ today - proof.timestamp > HourMinutes THEN FALSE
  ELSE TRUE

\* createSelectiveDisclosure committing to every attribute, revealed or not
createSelectiveDisclosure_CommitAll(attributes, attributesToReveal, today, generated) ==
  LET revealed == {key \in DOMAIN attributes : key \in attributesToReveal}
  IN [disclosed |-> [key \in revealed |-> attributes[key]],
      commitments |-> [key \in DOMAIN attributes |->
                         createCommitment(attributes[key], JsNull, generated[key]).commitment],
      proofs |-> [key \in DOMAIN attributes |->
                    [commitment |-> createCommitment(attributes[key], JsNull,
                                                     generated[key]).commitment,
                     hasValue |-> TRUE]],
      timestamp |-> today]

\* createSelectiveDisclosure(attributes, attributesToReveal) at Date.now() =
\* today; generated[key] is the factor generated for the commitment to `key`
createSelectiveDisclosure(attributes, attributesToReveal, today, generated) ==
  LET revealed == {key \in DOMAIN attributes : key \in attributesToReveal}
      hidden == DOMAIN attributes \ revealed
  IN [disclosed |-> [key \in revealed |-> attributes[key]],
      commitments |-> [key \in hidden |->
                         createCommitment(attributes[key], JsNull, generated[key]).commitment],
      proofs |-> [key \in hidden |->
                    [commitment |-> createCommitment(attributes[key], JsNull,
                                                     generated[key]).commitment,
                     hasValue |-> TRUE]],
      timestamp |-> today]

\* ------------------------------------------------------------------------
\* The zkProofs.js functions under drawn inputs (SpecZk)
\* ------------------------------------------------------------------------
ZkValues == {JsStr("a"), JsStr("a||b"), JsNum("34")}
ZkSalts == {JsStr("c"), JsStr("b||c"), JsNull}

zkOther == <<sys, engineVars, now, sessionVars, chainVars, chainCall>>

Zk_createCommitment ==
  /\ sys = "zk"
  /\ \E value \in ZkValues, blindingFactor \in ZkSalts, generated \in GeneratedFactors :
        LET made == createCommitment(value, blindingFactor, generated) IN
        /\ zkCall' = [op |-> "createCommitment", value |-> value,
                      blindingFactor |-> blindingFactor]
        /\ zkHeld' = [op |-> "createCommitment", value |-> value,
                      blindingFactor |-> blindingFactor, object |-> made]
        /\ result' = Returned(made)
  /\ lastOp' = "createCommitment"
  /\ UNCHANGED <<zkOther, dateNow>>

\* verifyCommitment against the commitment held
Zk_verifyCommitment ==
  /\ sys = "zk"
  /\ zkHeld.op = "createCommitment"
  /\ \E value \in ZkValues, blindingFactor \in ZkSalts \cup GeneratedFactors :
        /\ zkCall' = [op |-> "verifyCommitment", value |-> value,
                      blindingFactor |-> blindingFactor,
                      commitment |-> zkHeld.object.commitment]
        /\ result' = Returned(verifyCommitment(value, blindingFactor,
                                               zkHeld.object.commitment))
  /\ lastOp' = "verifyCommitment"
  /\ UNCHANGED <<zkOther, dateNow, zkHeld>>

ZkBirthDates == {[year |-> 1990, month |-> 1, day |-> 15],
                 [year |-> 1999, month |-> 6, day |-> 1]}
ZkThresholds == {16, 18}

\* midnight UTC of the t-th anniversary of a date (no date here is a 29 February)
Anniversary(date, t) == DateParse([date EXCEPT !.year = @ + t])

\* the clock readings: around each anniversary, a minute, an hour and half a day apart
ZkOffsets == {0 - 12 * HourMinutes, 0 - 1, 0, HourMinutes - 1, HourMinutes, 12 * HourMinutes}
ZkClockThreshold == 18
ZkInstants ==
  {Anniversary([year |-> 1990, month |-> 1, day |-> 15], ZkClockThreshold) + off :
     off \in ZkOffsets}

ZkAttributeSets ==
  {[name |-> JsStr("Ann"), age |-> JsNum("34")], [name |-> JsStr("")]}
ZkReveals == {{}, {"name"}, {"name", "age"}, {"ssn"}}

\* a proof object without one field, and with an explicit expiry
Without(proof, key) == [k \in DOMAIN proof \ {key} |-> proof[k]]
WithExpiry(proof, at) ==
  [k \in DOMAIN proof \cup {"expiresAt"} |-> IF k = "expiresAt" THEN at ELSE proof[k]]
\* the proofs isProofValid is called with when `proof` is held
ProofVariants(proof) ==
  {proof, Without(proof, "timestamp"), Without(proof, "expiresAt"),
   WithExpiry(proof, proof.timestamp)}

InitZk ==
  /\ sys = "zk"
  /\ SessionInit /\ localStorage = NoUser
  /\ ChainInit
  /\ policies = defaultPolicies
  /\ auditLog = <<>>
  /\ now = ClockStart
  /\ request = CHOOSE r \in EngineRequests : r.subject = NullSubject
  /\ lastOp = "none"
  /\ result = NoResult
  /\ dateNow \in ZkInstants
  /\ zkCall = NoZkCall
  /\ zkHeld = NoZkCall

Zk_createAgeProof ==
  /\ sys = "zk"
  /\ \E dateOfBirth \in ZkBirthDates, threshold \in ZkThresholds,
        generated \in GeneratedFactors :
        LET made == createAgeProof(dateOfBirth, threshold, dateNow, generated) IN
        /\ zkCall' = [op |-> "createAgeProof", dateOfBirth |-> dateOfBirth,
                      threshold |-> threshold]
        /\ zkHeld' = [op |-> "createAgeProof", object |-> made]
        /\ result' = Returned(made)
  /\ lastOp' = "createAgeProof"
  /\ UNCHANGED <<zkOther, dateNow>>

Zk_createRoleProof ==
  /\ sys = "zk"
  /\ \E role \in {ROLES.DOCTOR}, userId \in {"D1"},
        generated \in GeneratedFactors, nonce \in {JsStr("0a")} :
        LET made == createRoleProof(role, userId, dateNow, generated, nonce) IN
        /\ zkCall' = [op |-> "createRoleProof", role |-> role, userId |-> userId]
        /\ zkHeld' = [op |-> "createRoleProof", object |-> made]
        /\ result' = Returned(made)
  /\ lastOp' = "createRoleProof"
  /\ UNCHANGED <<zkOther, dateNow>>

Zk_createSelectiveDisclosure ==
  /\ sys = "zk"
  /\ \E attributes \in ZkAttributeSets, attributesToReveal \in ZkReveals :
     \E generated \in [DOMAIN attributes -> GeneratedFactors] :
        LET made == createSelectiveDisclosure(attributes, attributesToReveal,
                                              dateNow, generated) IN
        /\ zkCall' = [op |-> "createSelectiveDisclosure", attributes |-> attributes,
                      attributesToReveal |-> attributesToReveal]
        /\ zkHeld' = [op |-> "createSelectiveDisclosure", object |-> made]
        /\ result' = Returned(made)
  /\ lastOp' = "createSelectiveDisclosure"
  /\ UNCHANGED <<zkOther, dateNow>>

\* isProofValid on no proof, or on the proof held, whole or altered
Zk_isProofValid ==
  /\ sys = "zk"
  /\ \E proof \in {JsNull} \cup
                  (IF zkHeld.op \in {"createAgeProof", "createRoleProof",
                                     "createSelectiveDisclosure"}
                   THEN ProofVariants(zkHeld.object) ELSE {}) :
        /\ zkCall' = [op |-> "isProofValid", proof |-> proof, at |-> dateNow]
        /\ result' = Returned(isProofValid(proof, dateNow))
  /\ lastOp' = "isProofValid"
  /\ UNCHANGED <<zkOther, dateNow, zkHeld>>

\* time passes between calls
Zk_advanceClock ==
  /\ sys = "zk"
  /\ \E later \in ZkInstants : later > dateNow /\ dateNow' = later
  /\ UNCHANGED <<zkOther, lastOp, result, zkCall, zkHeld>>

NextZk ==
  \/ Zk_createCommitment \/ Zk_verifyCommitment \/ Zk_createAgeProof
  \/ Zk_createRoleProof \/ Zk_createSelectiveDisclosure \/ Zk_isProofValid
  \/ Zk_advanceClock

SpecZk == InitZk /\ [][NextZk]_vars

\* ------------------------------------------------------------------------
\* Properties of the zkProofs.js functions (SpecZk)
\* ------------------------------------------------------------------------

\* the (value, salt) pair the held commitment was made from: the salt is the
\* one passed, or the generated one when none was passed
HeldPair == <<zkHeld.value, zkHeld.object.blindingFactor>>

\* C21: commitment binding. With H injective on its input string, verifying
\* the commitment made from one (value, salt) pair against any different
\* pair gives false (stated here for pairs of strings only).
C21_Binding ==
  (/\ lastOp = "verifyCommitment"
   /\ zkHeld.op = "createCommitment"
   /\ {zkCall.value.type, zkCall.blindingFactor.type,
       HeldPair[1].type, HeldPair[2].type} = {"string"}
   /\ <<zkCall.value, zkCall.blindingFactor>> # HeldPair)
  => result.value = FALSE

\* C22: commitment round trip. What createCommitment(v, s) returns verifies
\* against v and the returned blindingFactor, whether the salt was passed or
\* generated; verifyCommitment is true exactly when the recomputed digest
\* equals the whole digest passed.
C22_RoundTrip ==
  /\ lastOp = "createCommitment"
       => verifyCommitment(zkCall.value, result.value.blindingFactor,
                           result.value.commitment)
  /\ (lastOp = "verifyCommitment" /\ zkHeld.op = "createCommitment")
       => /\ <<zkCall.value, zkCall.blindingFactor>> = HeldPair => result.value = TRUE
          /\ result.value = (hash(Template(zkCall.value) \o "||"
                                  \o Template(zkCall.blindingFactor))
                             = zkHeld.object.commitment)

\* a commitment made with a generated salt was verified with its own pair
C22_Witness ==
  /\ lastOp = "verifyCommitment"
  /\ zkHeld.op = "createCommitment"
  /\ ~JsTruthy(zkHeld.blindingFactor)
  /\ <<zkCall.value, zkCall.blindingFactor>> = HeldPair
  /\ result.value = TRUE

\* C23: age-threshold proof. createAgeProof(d, t) called at time `now` returns
\* isValid = true exactly when now is on or after the t-th anniversary of d,
\* and an object of proof, threshold, isValid and timestamp only.
C23_AgeThreshold ==
  lastOp = "createAgeProof"
    => /\ result.value.isValid
            = (result.value.timestamp
                 >= Anniversary(zkCall.dateOfBirth, zkCall.threshold))
       /\ DOMAIN result.value = {"proof", "threshold", "isValid", "timestamp"}

\* the freshness rule: a proof is fresh if it is there and has a timestamp,
\* and the time is not past its expiresAt or, when it has none, not more than
\* an hour past its timestamp
FreshByRule(proof, today) ==
  /\ proof # JsNull
  /\ "timestamp" \in DOMAIN proof
  /\ IF "expiresAt" \in DOMAIN proof
     THEN ~(today > proof.expiresAt)
     ELSE ~(today - proof.timestamp > HourMinutes)

\* C24: proof freshness. isProofValid follows the freshness rule; so a role
\* proof created at time T is valid at every time up to T + 1 hour, that time
\* included, and invalid at every later time.
C24_Freshness ==
  lastOp = "isProofValid"
    => /\ result.value = FreshByRule(zkCall.proof, zkCall.at)
       /\ (zkHeld.op = "createRoleProof" /\ zkCall.proof = zkHeld.object)
            => result.value = (zkCall.at <= zkHeld.object.timestamp + HourMinutes)

\* a role proof was found valid one hour to the minute after it was created
C24_Witness ==
  /\ lastOp = "isProofValid"
  /\ zkHeld.op = "createRoleProof"
  /\ zkCall.proof = zkHeld.object
  /\ zkCall.at = zkHeld.object.timestamp + HourMinutes
  /\ result.value = TRUE

\* C25: selective disclosure partition. For a reveal set R within the keys of
\* the attributes A, createSelectiveDisclosure(A, R) discloses exactly the
\* keys of R, each with its value in A, and commits to exactly the other
\* keys of A.
C25_DisclosurePartition ==
  (/\ lastOp = "createSelectiveDisclosure"
   /\ zkCall.attributesToReveal \subseteq DOMAIN zkCall.attributes)
  => /\ DOMAIN result.value.disclosed = zkCall.attributesToReveal
     /\ \A key \in zkCall.attributesToReveal :
           result.value.disclosed[key] = zkCall.attributes[key]
     /\ DOMAIN result.value.commitments
          = DOMAIN zkCall.attributes \ zkCall.attributesToReveal

\* some attributes were revealed and others committed to
C25_Witness ==
  /\ lastOp = "createSelectiveDisclosure"
  /\ zkCall.attributesToReveal \subseteq DOMAIN zkCall.attributes
  /\ DOMAIN result.value.disclosed # {}
  /\ DOMAIN result.value.commitments # {}

\* ------------------------------------------------------------------------
\* Further properties of the running programs (Spec)
\* ------------------------------------------------------------------------

\* the last call was SecureAccessControl.evaluateAccess, by `user` on the data
\* of `owner`, and since then only time has passed
ChainEvaluated(user, owner) ==
  /\ lastOp = "SAC.evaluateAccess"
  /\ chainCall.a = user /\ chainCall.b = owner

\* the relation from patient to user is the one emergencyAccess wrote at
\* time grantedAt, not revoked since
EmergencyRelation(patient, user) ==
  LET perm == chainPermissions[<<patient, user>>]
  IN  /\ perm.granted
      /\ perm.expiresAt = perm.grantedAt + EmergencyWindow
      /\ userAttributes[user].role \in {"EMERGENCY", "ADMIN"}

\* C26: emergency access is usable. After an active user E of role EMERGENCY
\* called emergencyAccess(E, P) for a registered patient P at time t,
\* evaluateAccess(E, P, ...) called at a time from t to t + 24 hours returns
\* true.
C26_EmergencyUsable ==
  \A user \in ChainUsers, patient \in ChainUsers :
    (/\ ChainEvaluated(user, patient)
     /\ userAttributes[user].role = "EMERGENCY"
     /\ userAttributes[user].isActive
     /\ userAttributes[patient].role = "PATIENT"
     /\ EmergencyRelation(patient, user)
     /\ chainCall.at >= chainPermissions[<<patient, user>>].grantedAt
     /\ chainCall.at <= chainPermissions[<<patient, user>>].expiresAt)
    => result.value = TRUE

\* the relation from patient to doctor is one a patient can have granted
PatientGranted(patient, doctor) ==
  /\ userAttributes[patient].role = "PATIENT"
  /\ userAttributes[doctor].role \in {"DOCTOR", "DIAGNOSTIC"}

DecisionByRule(user, owner, sensitivity, timestamp) ==
  /\ userAttributes[user].isActive
  /\ \/ user = owner
     \/ /\ userAttributes[user].role \in {"DOCTOR", "DIAGNOSTIC"}
        /\ isPermissionValid(chainPermissions, timestamp, owner, user)
        /\ sensitivity <= userAttributes[user].clearanceLevel
     \/ userAttributes[user].role = "ADMIN"

\* C28 as stated, in its last part: once deactivateUser(u) has run, u is not
\* active again, so that every later evaluateAccess by u is denied.
C28_Original_DeactivationSticks ==
  [][\A u \in ChainUsers :
       (/\ lastOp = "deactivateUser" /\ result.kind = "return"
        /\ chainCall.b = u)
       => ~userAttributes'[u].isActive]_vars

\* C28, corrected: evaluateAccess returns what the decision rule gives, and
\* false for a user who is not active (unregistered or deactivated); a
\* deactivateUser call that succeeds leaves the user inactive, and a
\* registered user who is inactive stays so, so that every later
\* evaluateAccess by that user is denied.
C28_DecisionFunction ==
  /\ [](\A user \in ChainUsers, owner \in ChainUsers :
          ChainEvaluated(user, owner)
            => /\ result.value = DecisionByRule(user, owner, chainCall.n, chainCall.at)
               /\ ~userAttributes[user].isActive => result.value = FALSE)
  /\ [][/\ (Called("deactivateUser") /\ result'.kind = "return")
             => ~userAttributes'[chainCall'.b].isActive
        /\ \A u \in ChainUsers :
             (userAttributes[u].role # "NONE" /\ ~userAttributes[u].isActive)
               => ~userAttributes'[u].isActive]_vars

\* a deactivated doctor holding a valid permission, and cleared for the
\* sensitivity, was denied
C28_Witness ==
  /\ ChainEvaluated("D1", "P1")
  /\ userAttributes["D1"].role = "DOCTOR"
  /\ ~userAttributes["D1"].isActive
  /\ isPermissionValid(chainPermissions, chainCall.at, "P1", "D1")
  /\ chainCall.n <= userAttributes["D1"].clearanceLevel
  /\ result.value = FALSE

\* C29: session lifecycle. logout clears the subject, its proofs and the
\* permissions; and after a logout no step but an authenticateUser call gives
\* the session a subject, so that until that call canAccess answers
\* 'User not authenticated'.
C29_SessionLifecycle ==
  [][/\ Called("logout")
          => (currentUser' = NoUser /\ userProofs' = {} /\ permissions' = {})
     /\ (lastOp = "logout" /\ lastOp' # "authenticateUser")
          => currentUser' = NoUser]_vars

\* ------------------------------------------------------------------------
\* A further property of evaluateAccess under drawn inputs (SpecEval)
\* ------------------------------------------------------------------------

\* the request with its resource declared at sensitivity s
AtSensitivity(req, s) == [req EXCEPT !.resource.sensitivity = s]

\* C30: sensitivity monotonicity. With the default policy store, a request
\* denied at resource sensitivity s is denied at every higher sensitivity up
\* to TOP_SECRET, all else equal.
C30_SensitivityMonotone ==
  (/\ EvalReturned
   /\ policies = defaultPolicies
   /\ request.resource.sensitivity # UndefNum
   /\ ~result.value.allowed)
  => \A higher \in (request.resource.sensitivity + 1) .. SENSITIVITY.TOP_SECRET :
        ~Decide(policies, AtSensitivity(request, higher), HourOf(now)).allowed
====
